---- MODULE Spec2Model ----
(***************************************************************************)
(* Order lifecycle and inventory of the CRM dashboard: the route handlers  *)
(* of /api/orders, /api/orders/[id] and /api/products/[id] running as      *)
(* concurrent requests against one database.                               *)
(*                                                                         *)
(* Amounts of money are integers in thousandths of the currency unit, so   *)
(* that a price with two decimals and ten percent of it are both exact.    *)
(*                                                                         *)
(* A handler is split at the database calls that matter for interleaving:  *)
(* everything up to and including its last read before the write is one    *)
(* step (session check, body parsing and the checks computed from the rows *)
(* read are local to the request), the prisma.$transaction (or the single  *)
(* write) is the second step.  A transaction commits all its writes or     *)
(* none of them.                                                           *)
(***************************************************************************)
EXTENDS Integers, Sequences, FiniteSets, TLC

\* ------------------------------------------------------------------ bounds
MaxProcs == 3
MaxQty == 2
MaxItems == 2
StockX == 3
StockY == 1
MaxDraftQty == 3

\* --------------------------------------------------------------- constants
\* const tax = subtotal * 0.1
TaxPercent == 10
\* const shipping = 10.00
Shipping == 10000
\* return subtotal * 0.08 // 8% tax rate
FormTaxPercent == 8
\* return 10.00 // Fixed shipping rate
FormShipping == 10000

Procs == 1..MaxProcs
ProductIds == {"X", "Y"}
CustomerIds == {"c1", "c2"}
Customers == {"c1"}
OrderIds == 1..MaxProcs
NoStatus == "-"

\* OrderUpdateSchema.status
Statuses == {"PENDING", "CONFIRMED", "PROCESSING", "SHIPPED", "DELIVERED", "CANCELLED"}

\* The role carried by the JWT session of the client behind each request slot.
SessionRoles == <<"ADMIN", "MANAGER", "ADMIN", "USER", "NONE">>
DefaultRole(p) == SessionRoles[((p - 1) % Len(SessionRoles)) + 1]

InitStock == [id \in ProductIds |-> IF id = "X" THEN StockX ELSE StockY]

\* product.price of the catalog as first created: 10.00 and 20.00
ListPrice == [id \in ProductIds |-> IF id = "X" THEN 10000 ELSE 20000]

\* The prices a request body may carry.
Prices == {10000, 20000}

\* An optional number field that the body does not carry.
NoValue == 0 - 1

\* items of OrderCreateSchema: productId, quantity >= 1, price >= 0
Lines == [productId : ProductIds, quantity : 1..MaxQty, price : Prices]

\* The items the new-order form sends: price: product.price of the product it listed.
FormLines == {l \in Lines : l.price = ListPrice[l.productId]}
ItemLists == UNION {[1..n -> FormLines] : n \in 0..MaxItems}

\* The items of any client: the price of a line is whatever the body says.
PricedItemLists == UNION {[1..n -> Lines] : n \in 0..MaxItems}

VARIABLES
  stock,     \* product.stock of every product row ever created
  price,     \* product.price of every product row ever created
  products,  \* ids of the existing product rows
  orders,    \* existing order rows with their items:
             \* id -> [status, paymentStatus, shippingStatus, items, subtotal, tax,
             \* shipping, total]
  nextId,    \* number of order ids handed out so far (ids are never reused)
  pc,        \* position of each request: "idle", "tx", "done"
  req,       \* validatedData and params of each request
  snap,      \* what the request keeps from its read: the status of existingOrder and
             \* the items it will restore (stockUpdates / existingOrder.items)
  result,    \* the response of each finished request
  restores,  \* per order id, how many committed transactions added its items back
  session,   \* the JWT session of the client behind each request slot: the user id
             \* and the role the user had at login
  draft,     \* formData.items of the new-order form
  users,     \* the user rows: id -> [role, name]
  systemSettings,  \* the stored system settings
  pageSettings,    \* the systemSettings state of the settings page
  responseBody     \* the settings a response carries, per request

\* What the order and product handlers never touch.
beside == <<session, draft, users, systemSettings, pageSettings, responseBody>>

vars == <<stock, price, products, orders, nextId, pc, req, snap, result, restores,
          session, draft, users, systemSettings, pageSettings, responseBody>>

\* session.user.role
SessionRole(p) == session[p].role

\* A response without settings.
NoBody == [siteName |-> "-", smtpPassword |-> "-"]

NoReq == [kind |-> "-", customerId |-> "-", items |-> << >>, id |-> 0,
          status |-> NoStatus, productId |-> "-", price |-> NoValue,
          stock |-> NoValue, paymentStatus |-> NoStatus, shippingStatus |-> NoStatus,
          userId |-> "-", role |-> NoStatus, name |-> NoStatus,
          settings |-> NoBody]

NoSnap == [status |-> NoStatus, items |-> << >>]

Db == [orders |-> orders, stock |-> stock, price |-> price, products |-> products]

\* UserUpdateSchema.role
Roles == {"ADMIN", "MANAGER", "USER"}

\* The user rows at the start: an admin, a manager and a plain user.
UserIds == {"u1", "u2", "u3"}
InitUsers ==
  [u \in UserIds |->
     [role |-> CASE u = "u1" -> "ADMIN" [] u = "u2" -> "MANAGER" [] OTHER -> "USER",
      name |-> "name"]]

\* No session, and the sessions of the request slots when nothing else is said.
NoSession == [userId |-> "-", role |-> "NONE"]
DefaultSessions == [p \in Procs |-> [userId |-> "-", role |-> DefaultRole(p)]]

\* let systemSettings = {siteName: 'CRM System', ..., smtpPassword: '', ...}: the site
\* name stands for every field that is not the SMTP password.
InitSystemSettings == [siteName |-> "CRM System", smtpPassword |-> ""]

InitBase ==
  /\ stock = InitStock
  /\ price = ListPrice
  /\ products = ProductIds
  /\ orders = << >>
  /\ nextId = 0
  /\ pc = [p \in Procs |-> "idle"]
  /\ req = [p \in Procs |-> NoReq]
  /\ snap = [p \in Procs |-> NoSnap]
  /\ result = [p \in Procs |-> "-"]
  /\ restores = [o \in OrderIds |-> 0]
  /\ draft = << >>
  /\ users = InitUsers
  /\ systemSettings = InitSystemSettings
  /\ pageSettings = InitSystemSettings
  /\ responseBody = [p \in Procs |-> NoBody]

Init == InitBase /\ session = DefaultSessions

\* ------------------------------------------------------- database writes
\* tx.product.update({where: {id}, data: {stock: {increment / decrement}}}) inside a
\* transaction r = [ok, db]: throws when the row does not exist, and nothing runs
\* after a throw.
ProductUpdate(r, productId, delta) ==
  IF ~r.ok THEN r
  ELSE IF productId \notin r.db.products THEN [r EXCEPT !.ok = FALSE]
  ELSE [r EXCEPT !.db.stock[productId] = @ + delta]

\* prisma.$transaction: the writes of a callback that returned, or nothing of a
\* callback that threw.
Commit(db, r) == IF r.ok THEN r ELSE [ok |-> FALSE, db |-> db]

\* const subtotal = validatedData.items.reduce((sum, item) => sum + item.price * item.quantity, 0)
RECURSIVE Subtotal(_)
Subtotal(items) ==
  IF items = << >> THEN 0
  ELSE Head(items).price * Head(items).quantity + Subtotal(Tail(items))

\* A tax of eight percent.
TaxEightPercent(subtotal) == (subtotal * 8) \div 100

\* const tax = subtotal * 0.1
Tax(subtotal) == (subtotal * TaxPercent) \div 100

\* const total = subtotal + tax + shipping
Total(subtotal, tax, shipping) == subtotal + tax + shipping

\* Lines whose total is the unit price, whatever the quantity.
OrderItemsUnitTotal(items) ==
  [i \in 1..Len(items) |->
     [productId |-> items[i].productId, quantity |-> items[i].quantity,
      price |-> items[i].price, total |-> items[i].price]]

\* items: {create: validatedData.items.map(item => ({..., price: item.price,
\* total: item.price * item.quantity}))}
OrderItems(items) ==
  [i \in 1..Len(items) |->
     [productId |-> items[i].productId, quantity |-> items[i].quantity,
      price |-> items[i].price, total |-> items[i].price * items[i].quantity]]

\* tx.order.create with its nested items: a new PENDING order owning one line per
\* item, with the amounts the handler computed from the body.
OrderCreate(r, id, items) ==
  IF ~r.ok THEN r
  ELSE LET subtotal == Subtotal(items)
           tax == Tax(subtotal)
       IN [r EXCEPT !.db.orders =
             (id :> [status |-> "PENDING", paymentStatus |-> "PENDING",
                     shippingStatus |-> "NOT_SHIPPED", items |-> OrderItems(items),
                     subtotal |-> subtotal, tax |-> tax, shipping |-> Shipping,
                     total |-> Total(subtotal, tax, Shipping)]) @@ @]

\* An update that writes nothing.
OrderUpdateKeepsStatus(r, id, data) ==
  IF ~r.ok THEN r
  ELSE IF id \notin DOMAIN r.db.orders THEN [r EXCEPT !.ok = FALSE]
  ELSE r

\* tx.order.update({where: {id}, data: {...validatedData}}): throws when the order
\* is gone; writes the fields the body carries (notes and shippingAddressId are
\* written the same way and are left out).
OrderUpdate(r, id, data) ==
  IF ~r.ok THEN r
  ELSE IF id \notin DOMAIN r.db.orders THEN [r EXCEPT !.ok = FALSE]
  ELSE [r EXCEPT
          !.db.orders[id].status = IF data.status = NoStatus THEN @ ELSE data.status,
          !.db.orders[id].paymentStatus =
             IF data.paymentStatus = NoStatus THEN @ ELSE data.paymentStatus,
          !.db.orders[id].shippingStatus =
             IF data.shippingStatus = NoStatus THEN @ ELSE data.shippingStatus]

\* tx.order.delete({where: {id}}): throws when the order is gone; its items go with it.
OrderDelete(r, id) ==
  IF ~r.ok THEN r
  ELSE IF id \notin DOMAIN r.db.orders THEN [r EXCEPT !.ok = FALSE]
  ELSE [r EXCEPT !.db.orders = [o \in (DOMAIN @) \ {id} |-> @[o]]]

\* for (const item of validatedData.items) tx.product.update(... decrement: item.quantity)
RECURSIVE DecrementStock(_, _)
DecrementStock(r, items) ==
  IF items = << >> THEN r
  ELSE DecrementStock(ProductUpdate(r, Head(items).productId, 0 - Head(items).quantity),
                      Tail(items))

\* A restore that sets the stock to the line's quantity instead of adding it.
RECURSIVE RestoreStockAssigns(_, _)
RestoreStockAssigns(r, updates) ==
  IF updates = << >> \/ ~r.ok THEN r
  ELSE RestoreStockAssigns(
         [r EXCEPT !.db.stock[Head(updates).productId] = Head(updates).quantity],
         Tail(updates))

\* for (const update of stockUpdates) tx.product.update(... increment: update.quantity)
RECURSIVE RestoreStock(_, _)
RestoreStock(r, updates) ==
  IF updates = << >> THEN r
  ELSE RestoreStock(ProductUpdate(r, Head(updates).productId, Head(updates).quantity),
                    Tail(updates))

\* A transaction that keeps the writes made before a throw.
TxCreateOrderNoRollback(db, id, items) ==
  DecrementStock(OrderCreate([ok |-> TRUE, db |-> db], id, items), items)

\* The callback of POST's prisma.$transaction: create the order, then decrement.
TxCreateOrder(db, id, items) ==
  Commit(db, DecrementStock(OrderCreate([ok |-> TRUE, db |-> db], id, items), items))

\* The callback of PUT's prisma.$transaction: update the order, then restore.
TxUpdateOrder(db, id, data, stockUpdates) ==
  Commit(db, RestoreStock(OrderUpdate([ok |-> TRUE, db |-> db], id, data), stockUpdates))

\* for (const item of existingOrder.items) tx.product.update(... increment: item.quantity)
RECURSIVE RestoreItems(_, _)
RestoreItems(r, items) ==
  IF items = << >> THEN r
  ELSE RestoreItems(ProductUpdate(r, Head(items).productId, Head(items).quantity),
                    Tail(items))

\* A delete whose restores stay when order.delete throws.
TxDeleteOrderNoRollback(db, id, items) ==
  OrderDelete(RestoreItems([ok |-> TRUE, db |-> db], items), id)

\* The callback of DELETE's prisma.$transaction: restore, then delete the order.
TxDeleteOrder(db, id, items) ==
  Commit(db, OrderDelete(RestoreItems([ok |-> TRUE, db |-> db], items), id))

\* The product ids the order items reference (product.orderItems is not empty).
ReferencedProducts(db) ==
  UNION {{db.orders[o].items[i].productId : i \in 1..Len(db.orders[o].items)} :
         o \in DOMAIN db.orders}

\* The foreign key of an order item to its product: a referenced product row cannot
\* be deleted.
OrderItemProductFk(db, id) == id \notin ReferencedProducts(db)

\* prisma.product.delete({where: {id}}): throws when the row is gone or when the
\* database refuses the delete.
ProductDelete(db, id) ==
  IF id \notin db.products \/ ~OrderItemProductFk(db, id)
  THEN [ok |-> FALSE, db |-> db]
  ELSE [ok |-> TRUE, db |-> [db EXCEPT !.products = @ \ {id}]]

\* ------------------------------------------------------------ the handlers
Finish(p, data, response) ==
  /\ pc' = [pc EXCEPT ![p] = "done"]
  /\ req' = [req EXCEPT ![p] = data]
  /\ snap' = [snap EXCEPT ![p] = NoSnap]
  /\ result' = [result EXCEPT ![p] = response]

Proceed(p, data, kept) ==
  /\ pc' = [pc EXCEPT ![p] = "tx"]
  /\ req' = [req EXCEPT ![p] = data]
  /\ snap' = [snap EXCEPT ![p] = kept]
  /\ UNCHANGED result

Write(db) ==
  /\ orders' = db.orders
  /\ stock' = db.stock
  /\ price' = db.price
  /\ products' = db.products

\* A lookup that returns a row for every id asked for.
FindProductsAny(db, items) ==
  {items[i].productId : i \in 1..Len(items)}

\* prisma.product.findMany({where: {id: {in: productIds}}}): one row per existing id.
FindProducts(db, items) ==
  {items[i].productId : i \in 1..Len(items)} \cap db.products

\* The stock availability loop of POST.
InsufficientStock(db, items) ==
  \E i \in 1..Len(items) : db.stock[items[i].productId] < items[i].quantity

\* A handler that asks for a session but not for a role.
OrdersPostCheckAnyRole(role, data, db) ==
  IF role = "NONE" THEN "Unauthorized"
  ELSE IF Len(data.items) < 1 THEN "ValidationFailed"
  ELSE IF data.customerId \notin Customers THEN "CustomerNotFound"
  ELSE IF Cardinality(FindProducts(db, data.items)) # Len(data.items) THEN "ProductsNotFound"
  ELSE IF InsufficientStock(db, data.items) THEN "InsufficientStock"
  ELSE "tx"

\* A handler whose schema accepts an empty items array.
OrdersPostCheckAnyLength(role, data, db) ==
  IF role = "NONE" THEN "Unauthorized"
  ELSE IF role \notin {"ADMIN", "MANAGER"} THEN "Forbidden"
  ELSE IF data.customerId \notin Customers THEN "CustomerNotFound"
  ELSE IF Cardinality(FindProducts(db, data.items)) # Len(data.items) THEN "ProductsNotFound"
  ELSE IF InsufficientStock(db, data.items) THEN "InsufficientStock"
  ELSE "tx"

\* POST /api/orders up to its transaction: the response it returns early, or "tx".
OrdersPostCheck(role, data, db) ==
  IF role = "NONE" THEN "Unauthorized"
  ELSE IF role \notin {"ADMIN", "MANAGER"} THEN "Forbidden"
  ELSE IF Len(data.items) < 1 THEN "ValidationFailed"
  ELSE IF data.customerId \notin Customers THEN "CustomerNotFound"
  ELSE IF Cardinality(FindProducts(db, data.items)) # Len(data.items) THEN "ProductsNotFound"
  ELSE IF InsufficientStock(db, data.items) THEN "InsufficientStock"
  ELSE "tx"

CreateBodies ==
  {[NoReq EXCEPT !.kind = "createOrder", !.customerId = c, !.items = items] :
     c \in CustomerIds, items \in ItemLists}

\* The bodies of a client that writes the price of each line itself.
PricedBodies ==
  {[NoReq EXCEPT !.kind = "createOrder", !.customerId = c, !.items = items] :
     c \in CustomerIds, items \in PricedItemLists}

OrdersPOSTOf(p, bodies) ==
  /\ pc[p] = "idle"
  /\ \E data \in bodies :
       LET response == OrdersPostCheck(SessionRole(p), data, Db) IN
       IF response = "tx" THEN Proceed(p, data, NoSnap)
       ELSE IF response \in {"Unauthorized", "Forbidden"}
            THEN Finish(p, [NoReq EXCEPT !.kind = "createOrder"], response)
       ELSE Finish(p, data, response)
  /\ UNCHANGED <<stock, price, products, orders, nextId, restores>>
  /\ UNCHANGED beside

\* POST /api/orders sent by the new-order form.
OrdersPOST(p) == OrdersPOSTOf(p, CreateBodies)

\* POST /api/orders sent by any client.
PricedPOST(p) == OrdersPOSTOf(p, PricedBodies)

OrdersPOSTTx(p) ==
  /\ pc[p] = "tx"
  /\ req[p].kind = "createOrder"
  /\ LET t == TxCreateOrder(Db, nextId + 1, req[p].items) IN
       /\ Write(t.db)
       /\ nextId' = IF t.ok THEN nextId + 1 ELSE nextId
       /\ Finish(p, [req[p] EXCEPT !.id = IF t.ok THEN nextId + 1 ELSE 0],
                 IF t.ok THEN "Created" ELSE "Failed")
  /\ UNCHANGED restores
  /\ UNCHANGED beside

\* PUT /api/orders/[id] up to its transaction.
OrderPutCheck(role, data, db) ==
  IF role = "NONE" THEN "Unauthorized"
  ELSE IF role \notin {"ADMIN", "MANAGER"} THEN "Forbidden"
  ELSE IF data.id \notin DOMAIN db.orders THEN "OrderNotFound"
  ELSE "tx"

\* An update that restores the lines whatever the body says.
StockUpdatesAlways(data, existingOrder) == existingOrder.items

\* A cancellation that restores nothing.
StockUpdatesNone(data, existingOrder) == << >>

\* let stockUpdates = [] ; if (status === 'CANCELLED' && existingOrder.status !== 'CANCELLED') ...
StockUpdates(data, existingOrder) ==
  IF data.status = "CANCELLED" /\ existingOrder.status # "CANCELLED"
  THEN existingOrder.items
  ELSE << >>

\* PUT /api/orders/[id] with {status: "CANCELLED"} run on db from its read to the
\* commit of its transaction, with no other request in between: the db it leaves.
CancelOrder(db, id) ==
  IF id \notin DOMAIN db.orders THEN db
  ELSE LET data == [NoReq EXCEPT !.status = "CANCELLED"] IN
         TxUpdateOrder(db, id, data, StockUpdates(data, db.orders[id])).db

UpdateBodies ==
  {[NoReq EXCEPT !.kind = "updateOrder", !.id = id, !.status = st] :
     id \in OrderIds, st \in Statuses \cup {NoStatus}}

\* Bodies that also carry the payment status and the shipping status.
PaymentStatuses == {"PENDING", "PAID", "FAILED", "REFUNDED"}
ShippingStatuses == {"NOT_SHIPPED", "SHIPPED", "IN_TRANSIT", "DELIVERED"}

FieldBodies ==
  {[NoReq EXCEPT !.kind = "updateOrder", !.id = id, !.status = st,
                 !.paymentStatus = pay, !.shippingStatus = ship] :
     id \in OrderIds, st \in Statuses \cup {NoStatus},
     pay \in PaymentStatuses \cup {NoStatus}, ship \in ShippingStatuses \cup {NoStatus}}

OrderPUTOf(p, bodies) ==
  /\ pc[p] = "idle"
  /\ \E data \in bodies :
       LET response == OrderPutCheck(SessionRole(p), data, Db) IN
       IF response = "tx"
       THEN Proceed(p, data, [status |-> orders[data.id].status,
                              items |-> StockUpdates(data, orders[data.id])])
       ELSE IF response \in {"Unauthorized", "Forbidden"}
            THEN Finish(p, [NoReq EXCEPT !.kind = "updateOrder"], response)
       ELSE Finish(p, data, response)
  /\ UNCHANGED <<stock, price, products, orders, nextId, restores>>
  /\ UNCHANGED beside

\* PUT /api/orders/[id] with a body that carries a status or nothing.
OrderPUT(p) == OrderPUTOf(p, UpdateBodies)

\* PUT /api/orders/[id] with any body.
FieldsPUT(p) == OrderPUTOf(p, FieldBodies)

OrderPUTTx(p) ==
  /\ pc[p] = "tx"
  /\ req[p].kind = "updateOrder"
  /\ LET t == TxUpdateOrder(Db, req[p].id, req[p], snap[p].items) IN
       /\ Write(t.db)
       /\ Finish(p, req[p], IF t.ok THEN "Updated" ELSE "Failed")
       /\ restores' = IF t.ok /\ snap[p].items # << >>
                      THEN [restores EXCEPT ![req[p].id] = @ + 1]
                      ELSE restores
  /\ UNCHANGED nextId
  /\ UNCHANGED beside

\* A delete handler without the pending-only guard.
OrderDeleteCheckAnyStatus(role, data, db) ==
  IF role = "NONE" THEN "Unauthorized"
  ELSE IF role # "ADMIN" THEN "Forbidden"
  ELSE IF data.id \notin DOMAIN db.orders THEN "OrderNotFound"
  ELSE "tx"

\* DELETE /api/orders/[id] up to its transaction.
OrderDeleteCheck(role, data, db) ==
  IF role = "NONE" THEN "Unauthorized"
  ELSE IF role # "ADMIN" THEN "Forbidden"
  ELSE IF data.id \notin DOMAIN db.orders THEN "OrderNotFound"
  ELSE IF db.orders[data.id].status # "PENDING" THEN "OnlyPending"
  ELSE "tx"

DeleteParams == {[NoReq EXCEPT !.kind = "deleteOrder", !.id = id] : id \in OrderIds}

OrderDELETE(p) ==
  /\ pc[p] = "idle"
  /\ \E data \in DeleteParams :
       LET response == OrderDeleteCheck(SessionRole(p), data, Db) IN
       IF response = "tx"
       THEN Proceed(p, data, [status |-> orders[data.id].status,
                              items |-> orders[data.id].items])
       ELSE IF response \in {"Unauthorized", "Forbidden"}
            THEN Finish(p, [NoReq EXCEPT !.kind = "deleteOrder"], response)
       ELSE Finish(p, data, response)
  /\ UNCHANGED <<stock, price, products, orders, nextId, restores>>
  /\ UNCHANGED beside

OrderDELETETx(p) ==
  /\ pc[p] = "tx"
  /\ req[p].kind = "deleteOrder"
  /\ LET t == TxDeleteOrder(Db, req[p].id, snap[p].items) IN
       /\ Write(t.db)
       /\ Finish(p, req[p], IF t.ok THEN "Deleted" ELSE "Failed")
       /\ restores' = IF t.ok THEN [restores EXCEPT ![req[p].id] = @ + 1] ELSE restores
  /\ UNCHANGED nextId
  /\ UNCHANGED beside

\* A product delete that does not look at the product's order items.
ProductDeleteCheckNoOrders(role, data, db) ==
  IF role # "ADMIN" THEN "Unauthorized"
  ELSE IF data.productId \notin db.products THEN "ProductNotFound"
  ELSE "tx"

\* DELETE /api/products/[id] up to its delete.
ProductDeleteCheck(role, data, db) ==
  IF role # "ADMIN" THEN "Unauthorized"
  ELSE IF data.productId \notin db.products THEN "ProductNotFound"
  ELSE IF data.productId \in ReferencedProducts(db) THEN "HasOrders"
  ELSE "tx"

ProductParams ==
  {[NoReq EXCEPT !.kind = "deleteProduct", !.productId = id] : id \in ProductIds}

ProductDELETE(p) ==
  /\ pc[p] = "idle"
  /\ \E data \in ProductParams :
       LET response == ProductDeleteCheck(SessionRole(p), data, Db) IN
       IF response = "tx" THEN Proceed(p, data, NoSnap)
       ELSE IF response = "Unauthorized"
            THEN Finish(p, [NoReq EXCEPT !.kind = "deleteProduct"], response)
       ELSE Finish(p, data, response)
  /\ UNCHANGED <<stock, price, products, orders, nextId, restores>>
  /\ UNCHANGED beside

ProductDELETEWrite(p) ==
  /\ pc[p] = "tx"
  /\ req[p].kind = "deleteProduct"
  /\ LET t == ProductDelete(Db, req[p].productId) IN
       /\ Write(t.db)
       /\ Finish(p, req[p], IF t.ok THEN "ProductDeleted" ELSE "Failed")
  /\ UNCHANGED <<nextId, restores>>
  /\ UNCHANGED beside

\* PUT /api/products/[id] up to its update.
ProductPutCheck(role, data, db) ==
  IF role \notin {"ADMIN", "MANAGER"} THEN "Unauthorized"
  ELSE IF data.productId \notin db.products THEN "ProductNotFound"
  ELSE "tx"

\* An update that also reprices the lines of existing orders that name the product.
ProductDataUpdateRepricing(db, id, data) ==
  IF id \notin db.products THEN [ok |-> FALSE, db |-> db]
  ELSE [ok |-> TRUE,
        db |-> [db EXCEPT
                  !.price[id] = IF data.price = NoValue THEN @ ELSE data.price,
                  !.stock[id] = IF data.stock = NoValue THEN @ ELSE data.stock,
                  !.orders = [o \in DOMAIN @ |->
                     [@[o] EXCEPT !.items = [i \in 1..Len(@) |->
                        IF @[i].productId = id /\ data.price # NoValue
                        THEN [@[i] EXCEPT !.price = data.price]
                        ELSE @[i]]]]]]

\* prisma.product.update({where: {id}, data: validatedData}): throws when the row is
\* gone; writes the fields the body carries, on the product row only.
ProductDataUpdate(db, id, data) ==
  IF id \notin db.products THEN [ok |-> FALSE, db |-> db]
  ELSE [ok |-> TRUE,
        db |-> [db EXCEPT !.price[id] = IF data.price = NoValue THEN @ ELSE data.price,
                          !.stock[id] = IF data.stock = NoValue THEN @ ELSE data.stock]]

\* updateProductSchema: price positive, stock a non-negative integer, both optional.
ProductBodies ==
  {[NoReq EXCEPT !.kind = "updateProduct", !.productId = id, !.price = pr, !.stock = st] :
     id \in ProductIds, pr \in Prices \cup {NoValue}, st \in (0..MaxQty) \cup {NoValue}}

ProductPUT(p) ==
  /\ pc[p] = "idle"
  /\ \E data \in ProductBodies :
       LET response == ProductPutCheck(SessionRole(p), data, Db) IN
       IF response = "tx" THEN Proceed(p, data, NoSnap)
       ELSE IF response = "Unauthorized"
            THEN Finish(p, [NoReq EXCEPT !.kind = "updateProduct"], response)
       ELSE Finish(p, data, response)
  /\ UNCHANGED <<stock, price, products, orders, nextId, restores>>
  /\ UNCHANGED beside

ProductPUTWrite(p) ==
  /\ pc[p] = "tx"
  /\ req[p].kind = "updateProduct"
  /\ LET t == ProductDataUpdate(Db, req[p].productId, req[p]) IN
       /\ Write(t.db)
       /\ Finish(p, req[p], IF t.ok THEN "ProductUpdated" ELSE "Failed")
  /\ UNCHANGED <<nextId, restores>>
  /\ UNCHANGED beside

Next ==
  \E p \in Procs :
    \/ OrdersPOST(p)
    \/ OrdersPOSTTx(p)
    \/ OrderPUT(p)
    \/ OrderPUTTx(p)
    \/ OrderDELETE(p)
    \/ OrderDELETETx(p)
    \/ ProductDELETE(p)
    \/ ProductDELETEWrite(p)

Spec == Init /\ [][Next]_vars

\* Orders whose lines carry any price, next to edits of the catalog: the requests of
\* two clients, an ADMIN and a MANAGER.
PricingProcs == {1, 2}

NextPricing ==
  \E p \in PricingProcs :
    \/ PricedPOST(p)
    \/ OrdersPOSTTx(p)
    \/ OrderPUT(p)
    \/ OrderPUTTx(p)
    \/ ProductPUT(p)
    \/ ProductPUTWrite(p)

SpecPricing == Init /\ [][NextPricing]_vars

\* Updates of every field of an order next to creations: the requests of two clients.
NextFields ==
  \E p \in PricingProcs :
    \/ OrdersPOST(p)
    \/ OrdersPOSTTx(p)
    \/ FieldsPUT(p)
    \/ OrderPUTTx(p)

SpecFields == Init /\ [][NextFields]_vars

\* The order and product handlers called by two clients with any session: none, or
\* one of role ADMIN, MANAGER or USER.
AnySessions ==
  {NoSession} \cup {[userId |-> "-", role |-> r] : r \in Roles}

InitAuth ==
  /\ InitBase
  /\ session \in {f \in [Procs -> AnySessions] :
                    \A p \in Procs \ PricingProcs : f[p] = DefaultSessions[p]}

NextAuth ==
  \E p \in PricingProcs :
    \/ OrdersPOST(p)
    \/ OrdersPOSTTx(p)
    \/ OrderPUT(p)
    \/ OrderPUTTx(p)
    \/ OrderDELETE(p)
    \/ OrderDELETETx(p)
    \/ ProductDELETE(p)
    \/ ProductDELETEWrite(p)
    \/ ProductPUT(p)
    \/ ProductPUTWrite(p)

SpecAuth == InitAuth /\ [][NextAuth]_vars

\* The client reads the response and is ready to send its next request.
NextRequest(p) ==
  /\ pc[p] = "done"
  /\ pc' = [pc EXCEPT ![p] = "idle"]
  /\ UNCHANGED <<stock, price, products, orders, nextId, req, snap, result, restores>>
  /\ UNCHANGED beside

\* ---------------------------------------------------------------- users
\* PUT /api/users/[id] up to its update: the name stands for every profile field
\* (name, email, password, image).
UsersPutCheckNoRoleGuard(sess, data, rows) ==
  IF sess = NoSession THEN "Unauthorized"
  ELSE IF sess.userId # data.userId /\ sess.role # "ADMIN" THEN "Forbidden"
  ELSE IF data.userId \notin DOMAIN rows THEN "UserNotFound"
  ELSE "tx"

UsersPutCheck(sess, data, rows) ==
  IF sess = NoSession THEN "Unauthorized"
  ELSE IF sess.userId # data.userId /\ sess.role # "ADMIN" THEN "Forbidden"
  ELSE IF data.role # NoStatus /\ sess.role # "ADMIN" THEN "OnlyAdmins"
  ELSE IF data.userId \notin DOMAIN rows THEN "UserNotFound"
  ELSE "tx"

\* prisma.user.update({where: {id}, data: updateData}): throws when the row is gone;
\* writes the fields the body carries.
UserUpdate(rows, id, data) ==
  IF id \notin DOMAIN rows THEN [ok |-> FALSE, rows |-> rows]
  ELSE [ok |-> TRUE,
        rows |-> [rows EXCEPT
                    ![id].role = IF data.role = NoStatus THEN @ ELSE data.role,
                    ![id].name = IF data.name = NoStatus THEN @ ELSE data.name]]

\* UserUpdateSchema and params.id: an existing or an unknown user id.
UserBodies ==
  {[NoReq EXCEPT !.kind = "updateUser", !.userId = u, !.role = r, !.name = n] :
     u \in UserIds \cup {"u9"}, r \in Roles \cup {NoStatus}, n \in {"renamed", NoStatus}}

UsersPUT(p) ==
  /\ pc[p] = "idle"
  /\ \E data \in UserBodies :
       LET response == UsersPutCheck(session[p], data, users) IN
       IF response = "tx" THEN Proceed(p, data, NoSnap)
       ELSE IF response \in {"Unauthorized"}
            THEN Finish(p, [NoReq EXCEPT !.kind = "updateUser"], response)
       ELSE Finish(p, data, response)
  /\ UNCHANGED <<stock, price, products, orders, nextId, restores>>
  /\ UNCHANGED beside

UsersPUTWrite(p) ==
  /\ pc[p] = "tx"
  /\ req[p].kind = "updateUser"
  /\ LET t == UserUpdate(users, req[p].userId, req[p]) IN
       /\ users' = t.rows
       /\ Finish(p, req[p], IF t.ok THEN "UserUpdated" ELSE "Failed")
  /\ UNCHANGED <<stock, price, products, orders, nextId, restores>>
  /\ UNCHANGED <<session, draft, systemSettings, pageSettings, responseBody>>

\* DELETE /api/users/[id] up to its delete.
UsersDeleteCheck(sess, data, rows) ==
  IF sess = NoSession THEN "Unauthorized"
  ELSE IF sess.role # "ADMIN" THEN "Forbidden"
  ELSE IF sess.userId = data.userId THEN "OwnAccount"
  ELSE IF data.userId \notin DOMAIN rows THEN "UserNotFound"
  ELSE "tx"

UserParams ==
  {[NoReq EXCEPT !.kind = "deleteUser", !.userId = u] : u \in UserIds \cup {"u9"}}

UsersDELETE(p) ==
  /\ pc[p] = "idle"
  /\ \E data \in UserParams :
       LET response == UsersDeleteCheck(session[p], data, users) IN
       IF response = "tx" THEN Proceed(p, data, NoSnap)
       ELSE IF response \in {"Unauthorized"}
            THEN Finish(p, [NoReq EXCEPT !.kind = "deleteUser"], response)
       ELSE Finish(p, data, response)
  /\ UNCHANGED <<stock, price, products, orders, nextId, restores>>
  /\ UNCHANGED beside

\* prisma.user.delete({where: {id}}): throws when the row is gone.
UsersDELETEWrite(p) ==
  /\ pc[p] = "tx"
  /\ req[p].kind = "deleteUser"
  /\ IF req[p].userId \in DOMAIN users
     THEN /\ users' = [u \in (DOMAIN users) \ {req[p].userId} |-> users[u]]
          /\ Finish(p, req[p], "UserDeleted")
     ELSE /\ users' = users
          /\ Finish(p, req[p], "Failed")
  /\ UNCHANGED <<stock, price, products, orders, nextId, restores>>
  /\ UNCHANGED <<session, draft, systemSettings, pageSettings, responseBody>>

\* The sessions of the users as they logged in: token.role = user.role.
Logins == {[userId |-> u, role |-> InitUsers[u].role] : u \in UserIds}

InitLogins ==
  /\ InitBase
  /\ session \in {f \in [Procs -> Logins \cup {NoSession} \cup {DefaultSessions[p] : p \in Procs}] :
                    /\ \A p \in Procs \ PricingProcs : f[p] = DefaultSessions[p]
                    /\ \A p \in PricingProcs : f[p] \in Logins \cup {NoSession}}

NextUsers ==
  \E p \in PricingProcs :
    \/ UsersPUT(p)
    \/ UsersPUTWrite(p)
    \/ UsersDELETE(p)
    \/ UsersDELETEWrite(p)

SpecUsers == InitLogins /\ [][NextUsers]_vars

\* ------------------------------------------------------- system settings
\* The mask GET puts in place of a stored SMTP password.
Mask == "********"

\* The body of a successful GET /api/settings/system.
SafeSettings(settings) ==
  [settings EXCEPT !.smtpPassword = IF settings.smtpPassword # "" THEN Mask ELSE ""]

\* The session checks of GET and PUT /api/settings/system.
SettingsCheck(sess) ==
  IF sess = NoSession THEN "Unauthorized"
  ELSE IF sess.role # "ADMIN" THEN "Forbidden"
  ELSE "ok"

\* GET /api/settings/system: the response and its body.
SettingsGet(sess, settings) ==
  IF SettingsCheck(sess) # "ok" THEN [result |-> SettingsCheck(sess), body |-> NoBody]
  ELSE [result |-> "SettingsRead", body |-> SafeSettings(settings)]

\* SystemSettingsSchema.parse(body): siteName: z.string().min(1), smtpPassword: z.string().
SystemSettingsValid(body) == body.siteName # ""

\* PUT /api/settings/system: the response, its body ('settings') and the stored settings.
SettingsPut(sess, body, settings) ==
  IF SettingsCheck(sess) # "ok"
  THEN [result |-> SettingsCheck(sess), body |-> NoBody, settings |-> settings]
  ELSE IF ~SystemSettingsValid(body)
  THEN [result |-> "Invalid", body |-> NoBody, settings |-> settings]
  ELSE [result |-> "SettingsUpdated", body |-> body, settings |-> body]

SiteNames == {"CRM System", "Shop"}
SmtpPasswords == {"", "secret", Mask}
SettingsBodies ==
  [siteName : SiteNames \cup {""}, smtpPassword : SmtpPasswords]

SettingsGETRequest(p) ==
  /\ pc[p] = "idle"
  /\ LET t == SettingsGet(session[p], systemSettings) IN
       /\ Finish(p, [NoReq EXCEPT !.kind = "readSettings"], t.result)
       /\ responseBody' = [responseBody EXCEPT ![p] = t.body]
  /\ UNCHANGED <<stock, price, products, orders, nextId, restores>>
  /\ UNCHANGED <<session, draft, users, systemSettings>>

SettingsGET(p) ==
  /\ SettingsGETRequest(p)
  /\ UNCHANGED pageSettings

SettingsPUTOf(p, bodies) ==
  /\ pc[p] = "idle"
  /\ \E body \in bodies :
       LET t == SettingsPut(session[p], body, systemSettings) IN
       /\ systemSettings' = t.settings
       /\ responseBody' = [responseBody EXCEPT ![p] = t.body]
       /\ IF t.result = "Unauthorized"
          THEN Finish(p, [NoReq EXCEPT !.kind = "updateSettings"], t.result)
          ELSE Finish(p, [NoReq EXCEPT !.kind = "updateSettings", !.settings = body],
                      t.result)
  /\ UNCHANGED <<stock, price, products, orders, nextId, restores>>
  /\ UNCHANGED <<session, draft, users, pageSettings>>

SettingsPUT(p) == SettingsPUTOf(p, SettingsBodies)

\* The settings page.  canManageSystem = isAdmin.
canManageSystem(p) == session[p].role = "ADMIN"

\* fetchSettings: GET, and on an ok response setSystemSettings({...defaults, ...data}).
fetchSettings(p) ==
  /\ canManageSystem(p)
  /\ SettingsGETRequest(p)
  /\ pageSettings' = IF result'[p] = "SettingsRead" THEN responseBody'[p]
                     ELSE pageSettings

\* An input of the system tab: setSystemSettings(prev => ({...prev, field: value})).
setSystemSettings(p) ==
  /\ canManageSystem(p)
  /\ \E v \in SiteNames \cup {""} \cup SmtpPasswords :
       \/ v \in SiteNames \cup {""} /\ pageSettings' = [pageSettings EXCEPT !.siteName = v]
       \/ v \in SmtpPasswords /\ pageSettings' = [pageSettings EXCEPT !.smtpPassword = v]
  /\ pageSettings' # pageSettings
  /\ UNCHANGED <<stock, price, products, orders, nextId, pc, req, snap, result, restores>>
  /\ UNCHANGED <<session, draft, users, systemSettings, responseBody>>

\* saveSystemSettings: PUT with body JSON.stringify(systemSettings).
saveSystemSettings(p) ==
  /\ canManageSystem(p)
  /\ SettingsPUTOf(p, {pageSettings})

NextSettings ==
  \E p \in PricingProcs :
    \/ SettingsGET(p)
    \/ SettingsPUT(p)
    \/ fetchSettings(p)
    \/ setSystemSettings(p)
    \/ saveSystemSettings(p)
    \/ NextRequest(p)

SpecSettings == InitAuth /\ [][NextSettings]_vars

\* ------------------------------------------------------- the new-order form
\* handleAddProduct(product): one more of a product already in the draft, or a new
\* item of quantity 1 at the product's listed price.
AddProductAppends(items, product) ==
  Append(items, [productId |-> product.id, quantity |-> 1, price |-> product.price])

AddProduct(items, product) ==
  IF \E i \in 1..Len(items) : items[i].productId = product.id
  THEN [i \in 1..Len(items) |->
          IF items[i].productId = product.id
          THEN [items[i] EXCEPT !.quantity = @ + 1]
          ELSE items[i]]
  ELSE Append(items, [productId |-> product.id, quantity |-> 1, price |-> product.price])

\* handleRemoveItem(productId): items.filter(item => item.productId !== productId)
RECURSIVE RemoveItem(_, _)
RemoveItem(items, productId) ==
  IF items = << >> THEN << >>
  ELSE IF Head(items).productId = productId THEN RemoveItem(Tail(items), productId)
  ELSE <<Head(items)>> \o RemoveItem(Tail(items), productId)

\* handleUpdateQuantity(productId, quantity)
UpdateQuantity(items, productId, quantity) ==
  IF quantity <= 0 THEN RemoveItem(items, productId)
  ELSE [i \in 1..Len(items) |->
          IF items[i].productId = productId
          THEN [items[i] EXCEPT !.quantity = quantity]
          ELSE items[i]]

\* calculateSubtotal, calculateTax, calculateShipping, calculateTotal
calculateSubtotal(items) == Subtotal(items)
calculateTax(subtotal) == (subtotal * FormTaxPercent) \div 100
calculateShipping == FormShipping
calculateTotal(items) ==
  calculateSubtotal(items) + calculateTax(calculateSubtotal(items)) + calculateShipping

\* A click on a product of the search results (existing products at their catalog
\* price); the quantity of an item is capped at MaxDraftQty.
handleAddProduct ==
  /\ \E id \in products :
       /\ \A i \in 1..Len(draft) :
            draft[i].productId = id => draft[i].quantity < MaxDraftQty
       /\ draft' = AddProduct(draft, [id |-> id, price |-> price[id]])
  /\ UNCHANGED <<stock, price, products, orders, nextId, pc, req, snap, result, restores>>
  /\ UNCHANGED <<session, users, systemSettings, pageSettings, responseBody>>

\* The quantity input of an item: parseInt(e.target.value) || 0.
handleUpdateQuantity ==
  /\ \E i \in 1..Len(draft), quantity \in (0 - 1)..MaxDraftQty :
       draft' = UpdateQuantity(draft, draft[i].productId, quantity)
  /\ UNCHANGED <<stock, price, products, orders, nextId, pc, req, snap, result, restores>>
  /\ UNCHANGED <<session, users, systemSettings, pageSettings, responseBody>>

\* The remove button of an item.
handleRemoveItem ==
  /\ \E i \in 1..Len(draft) : draft' = RemoveItem(draft, draft[i].productId)
  /\ UNCHANGED <<stock, price, products, orders, nextId, pc, req, snap, result, restores>>
  /\ UNCHANGED <<session, users, systemSettings, pageSettings, responseBody>>

\* handleSubmit: with a customer selected and at least one item, POST the draft.
handleSubmit(p) ==
  /\ draft # << >>
  /\ OrdersPOSTOf(p, {[NoReq EXCEPT !.kind = "createOrder", !.customerId = c,
                                    !.items = draft] : c \in Customers})

NextForm ==
  \/ handleAddProduct
  \/ handleUpdateQuantity
  \/ handleRemoveItem
  \/ \E p \in PricingProcs : handleSubmit(p) \/ OrdersPOSTTx(p)

SpecForm == Init /\ [][NextForm]_vars

\* One client walks one order through its lifecycle, a request at a time: it places
\* the order, then asks for the next status of the forward chain until none is left.
Successor ==
  [st \in {"PENDING", "CONFIRMED", "PROCESSING", "SHIPPED"} |->
     CASE st = "PENDING" -> "CONFIRMED"
       [] st = "CONFIRMED" -> "PROCESSING"
       [] st = "PROCESSING" -> "SHIPPED"
       [] st = "SHIPPED" -> "DELIVERED"]

LifecycleProcs == {1}

LifecyclePOST(p) ==
  /\ nextId = 0
  /\ OrdersPOST(p)

LifecyclePUT(p) ==
  /\ OrderPUT(p)
  /\ req'[p].id \in DOMAIN orders
  /\ orders[req'[p].id].status \in DOMAIN Successor
  /\ req'[p].status = Successor[orders[req'[p].id].status]

NextLifecycle ==
  \E p \in LifecycleProcs :
    \/ LifecyclePOST(p)
    \/ OrdersPOSTTx(p)
    \/ LifecyclePUT(p)
    \/ OrderPUTTx(p)
    \/ NextRequest(p)

\* A handler that started returns, and the client keeps sending requests.
SpecLifecycle == Init /\ [][NextLifecycle]_vars /\ WF_vars(NextLifecycle)

\* ---------------------------------------------------------------- claims
\* The sum of the quantities of the lines of items that name product id.
RECURSIVE SumQty(_, _)
SumQty(items, id) ==
  IF items = << >> THEN 0
  ELSE (IF Head(items).productId = id THEN Head(items).quantity ELSE 0)
       + SumQty(Tail(items), id)

OnlyCreations == \A p \in Procs : req[p].kind \in {"-", "createOrder"}

\* C1: after any sequence and interleaving of order-creation requests, the stock of
\* every product is >= 0, also when two creations naming one product run concurrently.
C1_StockNeverNegative ==
  OnlyCreations => \A id \in products : stock[id] >= 0

SingleLineFor(p, id) ==
  /\ pc[p] = "done"
  /\ req[p].kind = "createOrder"
  /\ req[p].customerId \in Customers
  /\ Len(req[p].items) = 1
  /\ req[p].items[1].productId = id

\* C2: of two order creations for one product whose stock covers either quantity
\* alone but not both, exactly one succeeds, the other fails with insufficient stock,
\* and the final stock is the initial stock minus the successful quantity.
C2_ExactlyOneSucceeds ==
  \A p, q \in Procs, id \in ProductIds :
    (/\ p # q
     /\ SingleLineFor(p, id)
     /\ SingleLineFor(q, id)
     /\ \A o \in Procs \ {p, q} : pc[o] = "idle"
     /\ req[p].items[1].quantity <= InitStock[id]
     /\ req[q].items[1].quantity <= InitStock[id]
     /\ req[p].items[1].quantity + req[q].items[1].quantity > InitStock[id])
    => /\ {result[p], result[q]} = {"Created", "InsufficientStock"}
       /\ stock[id] = InitStock[id] - (IF result[p] = "Created"
                                        THEN req[p].items[1].quantity
                                        ELSE req[q].items[1].quantity)

\* An authorised, well-formed creation for an existing customer whose product ids all
\* exist reads the products' stock in this step.
CreationChecked(p) ==
  /\ pc[p] = "idle"
  /\ pc'[p] # "idle"
  /\ SessionRole(p) \in {"ADMIN", "MANAGER"}
  /\ req'[p].kind = "createOrder"
  /\ req'[p].items # << >>
  /\ req'[p].customerId \in Customers
  /\ \A i \in 1..Len(req'[p].items) : req'[p].items[i].productId \in products

\* C3: a creation one of whose lines asks for more than the product's current stock
\* fails with the insufficient-stock error, creates no order and no line, and leaves
\* the stock of every product unchanged.
C3_InsufficientStockFails ==
  [][\A p \in Procs :
       (/\ CreationChecked(p)
        /\ \E i \in 1..Len(req'[p].items) :
             req'[p].items[i].quantity > stock[req'[p].items[i].productId])
       => /\ pc'[p] = "done"
          /\ result'[p] = "InsufficientStock"
          /\ orders' = orders
          /\ stock' = stock]_vars

\* The quantity of product id on the lines of the existing orders.
Held(id) ==
  LET ids == DOMAIN orders
      hold[S \in SUBSET ids] ==
        IF S = {} THEN 0
        ELSE LET o == CHOOSE x \in S : TRUE
             IN SumQty(orders[o].items, id) + hold[S \ {o}]
  IN hold[ids]

C4_Agree ==
  OnlyCreations => \A id \in ProductIds : stock[id] = InitStock[id] - Held(id)

C4_Step ==
  \A p \in Procs :
    (pc[p] = "tx" /\ req[p].kind = "createOrder" /\ pc'[p] = "done") =>
      \/ /\ result'[p] = "Created"
         /\ nextId + 1 \notin DOMAIN orders
         /\ DOMAIN orders' = DOMAIN orders \cup {nextId + 1}
         /\ orders'[nextId + 1].status = "PENDING"
         /\ Len(orders'[nextId + 1].items) = Len(req[p].items)
         /\ \A i \in 1..Len(req[p].items) :
              /\ orders'[nextId + 1].items[i].productId = req[p].items[i].productId
              /\ orders'[nextId + 1].items[i].quantity = req[p].items[i].quantity
         /\ \A o \in DOMAIN orders : orders'[o] = orders[o]
         /\ \A id \in ProductIds : stock'[id] = stock[id] - SumQty(req[p].items, id)
      \/ /\ result'[p] = "Failed"
         /\ orders' = orders
         /\ stock' = stock

\* C4: order creation is all-or-nothing: the order with all its lines appears in the
\* same step in which every line's quantity leaves the stock, a creation that fails
\* after it started leaves no order, no line and no decrement, and while only
\* creations run the stock agrees with the orders that exist.
C4_CreateAllOrNothing == []C4_Agree /\ [][C4_Step]_vars

C4_Witness ==
  \E p, q \in Procs :
    /\ pc[p] = "done" /\ req[p].kind = "createOrder" /\ result[p] = "Created"
    /\ req[p].id \in DOMAIN orders
    /\ pc[q] = "done" /\ req[q].kind = "createOrder" /\ result[q] = "Failed"
    /\ Len(req[q].items) = 2
    /\ req[q].items[1].productId \in products
    /\ req[q].items[2].productId \notin products

NonTerminal == {"PENDING", "CONFIRMED", "PROCESSING"}

C5_Step ==
  \A p \in Procs :
    (/\ pc[p] = "tx"
     /\ pc'[p] = "done"
     /\ req[p].kind = "updateOrder"
     /\ req[p].status = "CANCELLED"
     /\ snap[p].status \in NonTerminal) =>
      \/ /\ result'[p] = "Updated"
         /\ req[p].id \in DOMAIN orders
         /\ orders' = [orders EXCEPT ![req[p].id].status = "CANCELLED"]
         /\ \A id \in ProductIds :
              stock'[id] = stock[id] + SumQty(orders[req[p].id].items, id)
      \/ /\ result'[p] = "Failed"
         /\ orders' = orders
         /\ stock' = stock

\* C5: a status update to CANCELLED of an order the handler found PENDING, CONFIRMED
\* or PROCESSING sets the status and adds each line's quantity back to its product's
\* stock in one step, or (when its transaction throws) changes neither.
C5_CancelRestoresStock == [][C5_Step]_vars

C5_Witness ==
  \E p, q \in Procs :
    /\ pc[q] = "done" /\ req[q].kind = "updateOrder" /\ req[q].status = "CONFIRMED"
    /\ result[q] = "Updated"
    /\ pc[p] = "done" /\ req[p].kind = "updateOrder" /\ req[p].status = "CANCELLED"
    /\ result[p] = "Updated"
    /\ req[p].id = req[q].id
    /\ req[p].id \in DOMAIN orders
    /\ orders[req[p].id].status = "CANCELLED"
    /\ Len(orders[req[p].id].items) = 2
    /\ restores[req[p].id] = 1
    /\ stock = InitStock

\* C6: a request to set CANCELLED on an order that is already CANCELLED is rejected
\* (the caller gets an error), and the order and all stock are unchanged.
C6_RecancelRejected ==
  [][\A p \in Procs :
       (/\ pc[p] = "tx"
        /\ pc'[p] = "done"
        /\ req[p].kind = "updateOrder"
        /\ req[p].status = "CANCELLED"
        /\ snap[p].status = "CANCELLED"
        /\ req[p].id \in DOMAIN orders
        /\ orders[req[p].id].status = "CANCELLED")
       => /\ result'[p] # "Updated"
          /\ orders' = orders
          /\ stock' = stock]_vars

Allowed ==
  {<<"PENDING", "CONFIRMED">>, <<"PENDING", "CANCELLED">>,
   <<"CONFIRMED", "PROCESSING">>, <<"CONFIRMED", "CANCELLED">>,
   <<"PROCESSING", "SHIPPED">>, <<"PROCESSING", "CANCELLED">>,
   <<"SHIPPED", "DELIVERED">>}

\* C7: a status update whose (current, requested) pair is not in the allowed table
\* fails and leaves the order's status unchanged.
C7_InvalidTransitionRejected ==
  [][\A p \in Procs :
       (/\ pc[p] = "tx"
        /\ pc'[p] = "done"
        /\ req[p].kind = "updateOrder"
        /\ req[p].status # NoStatus
        /\ req[p].id \in DOMAIN orders
        /\ req[p].status # orders[req[p].id].status
        /\ <<orders[req[p].id].status, req[p].status>> \notin Allowed)
       => /\ result'[p] # "Updated"
          /\ req[p].id \in DOMAIN orders'
          /\ orders'[req[p].id].status = orders[req[p].id].status]_vars

\* C8: once an order's status is DELIVERED or CANCELLED, no step changes it.
C8_TerminalStatusesStay ==
  [][\A o \in DOMAIN orders :
       (orders[o].status \in {"DELIVERED", "CANCELLED"} /\ o \in DOMAIN orders')
       => orders'[o].status = orders[o].status]_vars

OnlyCancelsAndDeletes ==
  \A p \in Procs : req[p].status \in {NoStatus, "CANCELLED"}

\* C9: over any interleaving of cancel and delete requests on an order, its line
\* quantities are added back to the stock at most once in total.
C9_RestoredAtMostOnce ==
  OnlyCancelsAndDeletes => \A o \in OrderIds : restores[o] <= 1

C10_Step ==
  \A p \in Procs :
    (/\ pc[p] = "idle"
     /\ pc'[p] # "idle"
     /\ req'[p].kind = "deleteOrder"
     /\ SessionRole(p) = "ADMIN"
     /\ req'[p].id \in DOMAIN orders
     /\ orders[req'[p].id].status # "PENDING")
    => /\ pc'[p] = "done"
       /\ result'[p] = "OnlyPending"
       /\ orders' = orders
       /\ stock' = stock

\* C10: a delete request for an order whose status is not PENDING is rejected with an
\* error, and the order, its lines and every product's stock are unchanged.
C10_DeleteNonPendingRejected == [][C10_Step]_vars

C10_Witness ==
  \E p \in Procs :
    /\ pc[p] = "done" /\ req[p].kind = "deleteOrder" /\ result[p] = "OnlyPending"
    /\ req[p].id \in DOMAIN orders
    /\ orders[req[p].id].status = "PROCESSING"
    /\ \A id \in ProductIds : stock[id] = InitStock[id] - Held(id)

C11_Step ==
  \A p \in Procs :
    (/\ pc[p] = "tx"
     /\ pc'[p] = "done"
     /\ req[p].kind = "deleteOrder"
     /\ snap[p].status = "PENDING") =>
      \/ /\ result'[p] = "Deleted"
         /\ req[p].id \in DOMAIN orders
         /\ DOMAIN orders' = (DOMAIN orders) \ {req[p].id}
         /\ \A o \in DOMAIN orders' : orders'[o] = orders[o]
         /\ \A id \in ProductIds :
              stock'[id] = stock[id] + SumQty(orders[req[p].id].items, id)
      \/ /\ result'[p] = "Failed"
         /\ req[p].id \notin DOMAIN orders
         /\ orders' = orders
         /\ stock' = stock

\* C11: the delete of an order the handler found PENDING removes the order with all
\* its lines and adds each line's quantity back to its product's stock in one step;
\* it fails, changing nothing, only when the order is already gone.
C11_DeletePendingRestores == [][C11_Step]_vars

C11_Witness ==
  \E p, q \in Procs :
    /\ p # q
    /\ pc[p] = "done" /\ req[p].kind = "deleteOrder" /\ result[p] = "Deleted"
    /\ pc[q] = "done" /\ req[q].kind = "deleteOrder" /\ result[q] = "Failed"
    /\ req[q].id = req[p].id
    /\ orders = << >>
    /\ \E c \in Procs :
         /\ req[c].kind = "createOrder" /\ result[c] = "Created"
         /\ Len(req[c].items) = 2
    /\ stock = InitStock

\* The sum of the stored totals of the lines of an order.
RECURSIVE SumLineTotals(_)
SumLineTotals(items) ==
  IF items = << >> THEN 0 ELSE Head(items).total + SumLineTotals(Tail(items))

\* C12: for every stored order, total = subtotal + tax + shipping and subtotal is the
\* sum of its line totals, right after creation and after every later update.
C12_TotalsConsistent ==
  \A o \in DOMAIN orders :
    /\ orders[o].total = orders[o].subtotal + orders[o].tax + orders[o].shipping
    /\ orders[o].subtotal = SumLineTotals(orders[o].items)

C12_Witness ==
  \E p, q \in PricingProcs :
    /\ pc[p] = "done" /\ req[p].kind = "createOrder" /\ result[p] = "Created"
    /\ pc[q] = "done" /\ req[q].kind = "updateOrder" /\ result[q] = "Updated"
    /\ req[q].id = req[p].id
    /\ req[q].status = "SHIPPED"
    /\ req[p].id \in DOMAIN orders
    /\ orders[req[p].id].status = "SHIPPED"
    /\ Len(orders[req[p].id].items) = 2
    /\ orders[req[p].id].items[1].quantity = 2
    /\ orders[req[p].id].items[1].price # orders[req[p].id].items[2].price
    /\ orders[req[p].id].total > orders[req[p].id].subtotal

\* The sum over the lines of quantity times unit price.
RECURSIVE SumQtyPrice(_)
SumQtyPrice(items) ==
  IF items = << >> THEN 0
  ELSE Head(items).quantity * Head(items).price + SumQtyPrice(Tail(items))

\* C13: an order created from a list of lines has subtotal = sum of quantity x unit
\* price, tax = 10% of the subtotal, shipping = 10 and total = subtotal + tax +
\* shipping (amounts in thousandths).
C13_AmountsOfCreatedOrder ==
  \A p \in Procs :
    (/\ pc[p] = "done" /\ req[p].kind = "createOrder" /\ result[p] = "Created"
     /\ req[p].id \in DOMAIN orders)
    => LET o == orders[req[p].id] IN
         /\ o.subtotal = SumQtyPrice(req[p].items)
         /\ 10 * o.tax = o.subtotal
         /\ o.shipping = 10 * 1000
         /\ o.total = o.subtotal + o.tax + o.shipping

\* Lines (2 at 10) and (1 at 20) give subtotal 40, tax 4, shipping 10, total 54.
C13_Witness ==
  \E p \in Procs :
    /\ pc[p] = "done" /\ req[p].kind = "createOrder" /\ result[p] = "Created"
    /\ req[p].id \in DOMAIN orders
    /\ Len(req[p].items) = 2
    /\ req[p].items[1].quantity = 2 /\ req[p].items[1].price = 10 * 1000
    /\ req[p].items[2].quantity = 1 /\ req[p].items[2].price = 20 * 1000
    /\ orders[req[p].id].subtotal = 40 * 1000
    /\ orders[req[p].id].tax = 4 * 1000
    /\ orders[req[p].id].shipping = 10 * 1000
    /\ orders[req[p].id].total = 54 * 1000

C14_Step ==
  \A p \in LifecycleProcs :
    (pc[p] = "tx" /\ pc'[p] = "done" /\ req[p].kind = "updateOrder") =>
      /\ req[p].id \in DOMAIN orders
      /\ orders[req[p].id].status \in DOMAIN Successor
      /\ req[p].status = Successor[orders[req[p].id].status]
      /\ result'[p] = "Updated"
      /\ orders' = [orders EXCEPT ![req[p].id].status = req[p].status]

C14_Created == 1 \in DOMAIN orders

C14_Delivered == 1 \in DOMAIN orders /\ orders[1].status = "DELIVERED"

\* C14: from a newly created PENDING order, the updates to CONFIRMED, PROCESSING,
\* SHIPPED and DELIVERED, sent in that order, are each accepted and set the status
\* they ask for, and the order ends DELIVERED.
C14_LifecycleAccepted ==
  /\ [][C14_Step]_vars
  /\ [][\A o \in DOMAIN orders' : o \notin DOMAIN orders => orders'[o].status = "PENDING"]_vars
  /\ (C14_Created ~> C14_Delivered)
  /\ [](C14_Delivered => [] C14_Delivered)

C14_Witness ==
  \E p \in LifecycleProcs :
    /\ pc[p] = "done" /\ req[p].kind = "updateOrder" /\ result[p] = "Updated"
    /\ req[p].id = 1
    /\ req[p].status = "DELIVERED"
    /\ C14_Delivered

C15_Step ==
  \A p \in Procs :
    (/\ pc[p] = "idle"
     /\ pc'[p] # "idle"
     /\ req'[p].kind = "createOrder"
     /\ SessionRole(p) \in {"ADMIN", "MANAGER"}
     /\ req'[p].customerId \in Customers
     /\ \E i \in 1..Len(req'[p].items) : req'[p].items[i].productId \notin products)
    => /\ pc'[p] = "done"
       /\ result'[p] = "ProductsNotFound"
       /\ orders' = orders
       /\ stock' = stock

\* C15: a create request of an authorised client for an existing customer that names
\* a product id that does not exist is answered with the products-not-found error
\* (the line is not dropped), and no order is created and no stock changes.
C15_UnknownProductRejected == [][C15_Step]_vars

C15_Witness ==
  \E p \in Procs :
    /\ pc[p] = "done" /\ req[p].kind = "createOrder" /\ result[p] = "ProductsNotFound"
    /\ Len(req[p].items) = 2
    /\ req[p].items[1].productId = "X"
    /\ req[p].items[2].productId = "Y"
    /\ products = {"X"}
    /\ orders = << >>
    /\ stock = InitStock

C16_Step ==
  \A p \in Procs :
    (/\ pc[p] = "idle"
     /\ pc'[p] # "idle"
     /\ req'[p].kind = "createOrder"
     /\ SessionRole(p) \in {"ADMIN", "MANAGER"}
     /\ req'[p].items = << >>)
    => /\ pc'[p] = "done"
       /\ result'[p] = "ValidationFailed"
       /\ orders' = orders
       /\ stock' = stock

\* C16: a create request whose items list is empty is rejected with the validation
\* error, and no order is created and no stock changes.
C16_EmptyItemsRejected == [][C16_Step]_vars

C16_Witness ==
  \E p \in Procs :
    /\ pc[p] = "done" /\ req[p].kind = "createOrder" /\ result[p] = "ValidationFailed"
    /\ SessionRole(p) = "MANAGER"
    /\ req[p].customerId \in Customers
    /\ req[p].items = << >>
    /\ orders = << >>
    /\ stock = InitStock

\* C17: the unit price stored on each line of a created order equals the catalog
\* price of that line's product at the moment the order is created.
C17_UnitPriceFromCatalog ==
  [][\A p \in Procs :
       (/\ pc[p] = "tx"
        /\ pc'[p] = "done"
        /\ req[p].kind = "createOrder"
        /\ result'[p] = "Created")
       => \A i \in 1..Len(orders'[req'[p].id].items) :
            orders'[req'[p].id].items[i].price
              = price[orders'[req'[p].id].items[i].productId]]_vars

C18_Step ==
  /\ price' # price => orders' = orders
  /\ \A o \in (DOMAIN orders) \cap (DOMAIN orders') :
       /\ orders'[o].items = orders[o].items
       /\ orders'[o].subtotal = orders[o].subtotal
       /\ orders'[o].tax = orders[o].tax
       /\ orders'[o].total = orders[o].total

\* C18: a step that changes a product's price changes no order, and no step at all
\* changes the unit price or line total of an existing line or the subtotal, tax or
\* total of an existing order.
C18_PriceChangeLeavesOrders == [][C18_Step]_vars

C18_Witness ==
  \E p, q \in PricingProcs :
    /\ pc[p] = "done" /\ req[p].kind = "createOrder" /\ result[p] = "Created"
    /\ pc[q] = "done" /\ req[q].kind = "updateProduct" /\ result[q] = "ProductUpdated"
    /\ req[q].productId = "X"
    /\ req[q].price = 20 * 1000
    /\ price["X"] = 20 * 1000
    /\ req[p].id \in DOMAIN orders
    /\ Len(orders[req[p].id].items) = 1
    /\ orders[req[p].id].items[1].productId = "X"
    /\ orders[req[p].id].items[1].quantity = 2
    /\ orders[req[p].id].items[1].price = 10 * 1000
    /\ orders[req[p].id].items[1].total = 20 * 1000
    /\ orders[req[p].id].subtotal = 20 * 1000
    /\ orders[req[p].id].total = 32 * 1000

C19_LinesReferenceProducts == ReferencedProducts(Db) \subseteq products

C19_Step ==
  \A p \in Procs :
    (/\ pc'[p] # pc[p]
     /\ req'[p].kind = "deleteProduct"
     /\ SessionRole(p) = "ADMIN"
     /\ req'[p].productId \in ReferencedProducts(Db))
    => /\ pc'[p] = "done"
       /\ result'[p] \in {"HasOrders", "Failed"}
       /\ products' = products

C20_CancellationsCommute ==
  \A a, b \in DOMAIN orders :
    a # b => CancelOrder(CancelOrder(Db, a), b) = CancelOrder(CancelOrder(Db, b), a)

C20_Witness ==
  \E a, b \in DOMAIN orders :
    /\ a # b
    /\ orders[a].status \in NonTerminal
    /\ orders[b].status \in NonTerminal
    /\ SumQty(orders[a].items, "X") = 1
    /\ SumQty(orders[b].items, "X") = 2
    /\ stock["X"] = 0
    /\ LET d == CancelOrder(CancelOrder(Db, a), b) IN
         /\ d.orders[a].status = "CANCELLED"
         /\ d.orders[b].status = "CANCELLED"
         /\ d.stock["X"] = 3
         /\ d = CancelOrder(CancelOrder(Db, b), a)

\* C21: an order is removed only if its status is PENDING at the moment the deletion
\* takes effect; when a status update lands between the delete handler's check and
\* its transaction, the order is not deleted and no stock is restored for it.
C21_DeletedOnlyWhilePending ==
  [][\A o \in DOMAIN orders :
       orders[o].status # "PENDING" =>
         /\ o \in DOMAIN orders'
         /\ (\E p \in Procs : pc[p] = "tx" /\ pc'[p] = "done"
                              /\ req[p].kind = "deleteOrder" /\ req[p].id = o)
            => stock' = stock]_vars

\* The quantity of product id on the lines of the existing orders that are not
\* CANCELLED.
HeldActive(id) ==
  LET ids == {o \in DOMAIN orders : orders[o].status # "CANCELLED"}
      hold[S \in SUBSET ids] ==
        IF S = {} THEN 0
        ELSE LET o == CHOOSE x \in S : TRUE
             IN SumQty(orders[o].items, id) + hold[S \ {o}]
  IN hold[ids]

\* C22: stock conservation: in every state reached through order creation, order
\* updates, cancellation and order deletion, for each product the current stock plus
\* the quantities of its lines in existing orders that are not CANCELLED is the
\* product's initial stock.
C22_StockConservation ==
  \A id \in ProductIds : stock[id] + HeldActive(id) = InitStock[id]

\* C23: a create request of an authorised client is not rejected when the customer
\* exists, every product it names exists and, for each product, the quantities of
\* all the lines naming it sum to at most its stock, also when two lines name the
\* same product.
C23_SufficientStockAccepted ==
  [][\A p \in Procs :
       (/\ pc[p] = "idle"
        /\ pc'[p] # "idle"
        /\ req'[p].kind = "createOrder"
        /\ SessionRole(p) \in {"ADMIN", "MANAGER"}
        /\ req'[p].customerId \in Customers
        /\ req'[p].items # << >>
        /\ \A i \in 1..Len(req'[p].items) : req'[p].items[i].productId \in products
        /\ \A id \in ProductIds : SumQty(req'[p].items, id) <= stock[id])
       => pc'[p] = "tx"]_vars

C24_Step ==
  \A p \in Procs :
    (pc[p] = "tx" /\ pc'[p] = "done" /\ req[p].kind = "updateOrder") =>
      /\ req[p].status # "CANCELLED" => stock' = stock
      /\ DOMAIN orders' = DOMAIN orders
      /\ \A o \in DOMAIN orders :
           /\ orders'[o].items = orders[o].items
           /\ orders'[o].subtotal = orders[o].subtotal
           /\ orders'[o].tax = orders[o].tax
           /\ orders'[o].shipping = orders[o].shipping
           /\ orders'[o].total = orders[o].total

\* C24: an order update whose body does not ask for CANCELLED (a change of payment
\* status or shipping status, or a status change to anything else) leaves every
\* product's stock unchanged, and no order update changes an order's lines or its
\* subtotal, tax, shipping or total.
C24_UpdateFrame == [][C24_Step]_vars

C24_Witness ==
  \E p \in PricingProcs :
    /\ pc[p] = "done" /\ req[p].kind = "updateOrder" /\ result[p] = "Updated"
    /\ req[p].status = "SHIPPED"
    /\ req[p].paymentStatus = "PAID"
    /\ req[p].shippingStatus = "IN_TRANSIT"
    /\ req[p].id \in DOMAIN orders
    /\ orders[req[p].id].status = "SHIPPED"
    /\ orders[req[p].id].paymentStatus = "PAID"
    /\ orders[req[p].id].shippingStatus = "IN_TRANSIT"
    /\ Len(orders[req[p].id].items) = 2
    /\ orders[req[p].id].total = 54 * 1000
    /\ \A id \in ProductIds : stock[id] = InitStock[id] - Held(id)

\* C25: for the same lines, the tax and the total the new-order form computes equal
\* the tax and the total the handler stores on the order created from them.
C25_FormAndHandlerAgree ==
  \A p \in Procs :
    (/\ pc[p] = "done" /\ req[p].kind = "createOrder" /\ result[p] = "Created"
     /\ req[p].id \in DOMAIN orders)
    => /\ orders[req[p].id].tax = calculateTax(calculateSubtotal(req[p].items))
       /\ orders[req[p].id].total = calculateTotal(req[p].items)

C30_DraftWellFormed ==
  /\ \A i, j \in 1..Len(draft) : draft[i].productId = draft[j].productId => i = j
  /\ \A i \in 1..Len(draft) : draft[i].quantity >= 1

C30_Step ==
  /\ \A id \in ProductIds :
       (/\ \E i \in 1..Len(draft) : draft[i].productId = id
        /\ draft' = AddProduct(draft, [id |-> id, price |-> price[id]]))
       => /\ Len(draft') = Len(draft)
          /\ SumQty(draft', id) = SumQty(draft, id) + 1
  /\ \A id \in ProductIds, quantity \in (0 - 1)..0 :
       draft' = UpdateQuantity(draft, id, quantity) => SumQty(draft', id) = 0

\* C30: in the new-order form, after any sequence of add-product, update-quantity and
\* remove-item actions no two items of the draft share a product id and every
\* item's quantity is at least 1; adding a product already in the draft raises its
\* quantity by 1 and setting a quantity <= 0 removes the item.
C30_DraftItemsDistinct == []C30_DraftWellFormed /\ [][C30_Step]_vars

C30_Witness ==
  /\ Len(draft) = 2
  /\ draft[1].productId = "Y" /\ draft[1].quantity = 3
  /\ draft[2].productId = "X" /\ draft[2].quantity = 2

Successes == {"Created", "Updated", "Deleted", "ProductDeleted", "ProductUpdated"}

C26_Step ==
  \A p \in Procs :
    pc'[p] # pc[p] =>
      /\ SessionRole(p) \notin {"ADMIN", "MANAGER"} =>
           /\ pc'[p] = "done"
           /\ result'[p] \in {"Unauthorized", "Forbidden"}
      /\ (\E o \in DOMAIN orders : o \notin DOMAIN orders') => SessionRole(p) = "ADMIN"
      /\ (pc'[p] = "done" /\ result'[p] \notin Successes) =>
           /\ orders' = orders
           /\ stock' = stock

\* C26: a request without a session, or with a session whose role is neither ADMIN
\* nor MANAGER, is refused and never creates or updates an order or changes a stock;
\* only a request with an ADMIN session deletes an order; a rejected request leaves
\* all orders and stock unchanged.
C26_OnlyAuthorisedWrites == [][C26_Step]_vars

C26_Witness ==
  /\ session[1].role = "USER"
  /\ pc[1] = "done" /\ req[1].kind = "createOrder" /\ result[1] = "Forbidden"
  /\ session[2].role = "NONE"
  /\ pc[2] = "done" /\ req[2].kind = "updateOrder" /\ result[2] = "Unauthorized"
  /\ orders = << >>
  /\ stock = InitStock

C27_Step ==
  \A p \in Procs :
    pc'[p] # pc[p] =>
      /\ \A u \in (DOMAIN users) \cap (DOMAIN users') :
           /\ users'[u].role # users[u].role => session[p].role = "ADMIN"
           /\ (users'[u] # users[u] /\ u # session[p].userId) => session[p].role = "ADMIN"
      /\ DOMAIN users' # DOMAIN users => session[p].role = "ADMIN"

\* C27: a user's role changes only in a step of a request made with an ADMIN session,
\* and a request made with any other session changes no role (its own user's
\* included) and no row of another user.
C27_RolesChangedByAdminsOnly == [][C27_Step]_vars

C27_Witness ==
  \E p, q \in PricingProcs :
    /\ session[p] = [userId |-> "u1", role |-> "ADMIN"]
    /\ pc[p] = "done" /\ req[p].kind = "updateUser" /\ result[p] = "UserUpdated"
    /\ req[p].userId = "u3" /\ req[p].role = "MANAGER"
    /\ session[q] = [userId |-> "u3", role |-> "USER"]
    /\ pc[q] = "done" /\ req[q].kind = "updateUser" /\ result[q] = "OnlyAdmins"
    /\ req[q].userId = "u3" /\ req[q].role = "ADMIN"
    /\ users["u3"] = [role |-> "MANAGER", name |-> "name"]

C28_Step ==
  \A p \in Procs :
    ( /\ pc[p] = "idle" /\ pc'[p] = "done"
      /\ req'[p].kind = "updateSettings"
      /\ result'[p] = "SettingsUpdated"
      /\ req'[p].settings = SafeSettings(systemSettings) )
    => systemSettings' = systemSettings

\* C28: a PUT whose body is what GET returns for the stored system settings (the
\* settings page's load followed by save without edits) leaves the stored settings
\* unchanged, the SMTP password included.
C28_GetThenPutKeepsSettings == [][C28_Step]_vars

\* C29: the password field of the body of every response of the system-settings
\* endpoint, GET or PUT, is the mask or empty.
C29_NoPasswordInResponses ==
  \A p \in Procs :
    responseBody[p] # NoBody => responseBody[p].smtpPassword \in {Mask, ""}

====
